---- MODULE Spec2Model ----
(***************************************************************************)
(* A model of src/main.py: three SQLite tables (users, items, orders) and  *)
(* the twelve FastAPI handlers over them.  A handler is cut at its await   *)
(* points that separate two database statements; everything between two    *)
(* such points is one atomic step of the event loop.                        *)
(***************************************************************************)
EXTENDS Integers, Sequences, FiniteSets, TLC

VARIABLES
  users,    \* the users table
  items,    \* the items table
  orders,   \* the orders table
  clock,    \* what datetime.utcnow() reads
  pc,       \* per request slot: where its handler stands
  local,    \* per request slot: the handler's arguments and locals
  resp,     \* the last response sent
  created   \* history: the last create response whose id no later request named

vars == <<users, items, orders, clock, pc, local, resp, created>>

(* ------------------------------ bounds --------------------------------- *)

\* The largest primary key a table hands out: an INSERT is not taken past it.
MaxId == 2

\* The last instant of the clock read by datetime.utcnow().
MaxClock == 1

Ids == 1..MaxId

\* The request slots of the event loop.
Requests == {"r1", "r2"}

(* ------------------------------ values --------------------------------- *)

\* Python's None: what fetch_one gives when no row matches.
None == [none |-> TRUE]

\* A request slot that runs no handler.
NoLocal == [op |-> "idle"]

\* Before the first response.
NoResp == [op |-> "none", id |-> 0, status_code |-> 0, body |-> None]

\* No create response is remembered.
NoCreated == [kind |-> "none", id |-> 0, fields |-> None]

\* A str is a sequence of one-character strings, so that the statement text
\* built from it can be scanned.
Pending == <<"p", "e", "n", "d", "i", "n", "g">>

Max(S) == CHOOSE m \in S : \A x \in S : x <= m

(* ------------------------- pydantic contracts -------------------------- *)

UserCreate == {"first_name", "last_name", "email", "password"}

ItemCreate == {"name", "description", "price"}

OrderCreate == {"user_id", "item_id"}

ItemRead == {"id", "name", "description", "price"}

OrderResponse == {"id", "user_id", "item_id", "order_date", "status"}

OrderRead == {"id", "user_id", "item_id", "order_date", "status"}

\* {**d, key: v}: the dict d with key set to v.
With(d, key, v) == [k \in (DOMAIN d) \cup {key} |-> IF k = key THEN v ELSE d[k]]

\* response_model=None, dict or Dict[str, ...]: the returned mapping goes out
\* as it is.
AnyDict == {}

\* FastAPI's response_model: the returned mapping is validated against the
\* model and serialised from it, which keeps the model's fields and drops
\* every other key.
Serialize(model, value) ==
  IF model = AnyDict THEN value ELSE [k \in model |-> value[k]]

(* ----------------------- exceptions and outcomes ----------------------- *)

HTTPException(code, detail) ==
  [type |-> "HTTPException", status_code |-> code, detail |-> detail]

IntegrityError == [type |-> "IntegrityError", msg |-> "UNIQUE constraint failed: users.email"]

OperationalError == [type |-> "OperationalError", msg |-> "syntax error"]

\* str(e), the detail of the handlers' 500.
Str(e) == IF e.type = "HTTPException" THEN e.detail ELSE e.msg

Return(v) == [kind |-> "return", value |-> v]

Raise(e) == [kind |-> "raise", exc |-> e]

\* HTTPException derives from Exception: the handlers' "except Exception"
\* catches the HTTPException(404) raised inside their own try block as well.
IsException(e) == e.type \in {"HTTPException", "IntegrityError", "OperationalError"}

\* try: <outcome>  except Exception as e: raise HTTPException(500, str(e))
ExceptException(outcome) ==
  IF outcome.kind = "raise" /\ IsException(outcome.exc)
  THEN Raise(HTTPException(500, Str(outcome.exc)))
  ELSE outcome

\* read_user's except clause: a fixed detail.
ExceptExceptionReadUser(outcome) ==
  IF outcome.kind = "raise" /\ IsException(outcome.exc)
  THEN Raise(HTTPException(500, "Internal Server Error"))
  ELSE outcome

\* What the client gets from a handler's outcome under the route's
\* response_model: the HTTPException's status and detail, or 200 and the
\* serialised value; a value that lacks a field of the model fails FastAPI's
\* response validation, a 500.
Response(op, id, model, outcome) ==
  IF outcome.kind = "raise"
  THEN [op |-> op, id |-> id, status_code |-> outcome.exc.status_code,
        body |-> [detail |-> outcome.exc.detail]]
  ELSE IF model \subseteq DOMAIN outcome.value
       THEN [op |-> op, id |-> id, status_code |-> 200,
             body |-> Serialize(model, outcome.value)]
       ELSE [op |-> op, id |-> id, status_code |-> 500,
             body |-> [detail |-> "Internal Server Error"]]

(* ------------------------------ the store ------------------------------ *)

\* A table is a function from the primary keys of its rows to the rows.
EmptyTable == [i \in {} |-> None]

\* INTEGER PRIMARY KEY without AUTOINCREMENT: one more than the largest key
\* in the table, 1 in an empty table.
NextId(table) == IF DOMAIN table = {} THEN 1 ELSE Max(DOMAIN table) + 1

\* database.fetch_one(table.select().where(id == i)).
FetchOne(table, i) == IF i \in DOMAIN table THEN table[i] ELSE None

\* INSERT INTO table VALUES (row), the key being NextId(table).
Insert(table, row) ==
  [i \in (DOMAIN table) \cup {NextId(table)} |->
     IF i \in DOMAIN table THEN table[i] ELSE With(row, "id", NextId(table))]

\* UPDATE table SET values WHERE id = i: no row is made when none matches.
Update(table, i, values) ==
  [j \in DOMAIN table |->
     IF j = i THEN [k \in DOMAIN table[j] |->
                      IF k \in DOMAIN values THEN values[k] ELSE table[j][k]]
     ELSE table[j]]

\* DELETE FROM table WHERE id = i.
Delete(table, i) == [j \in (DOMAIN table) \ {i} |-> table[j]]

\* users.email is UNIQUE: whether another row than i holds the email.
EmailTaken(email, i) == \E j \in (DOMAIN users) \ {i} : users[j].email = email

\* Not(row): Python's "not row" on a fetched row.
Not(row) == row = None

Init ==
  /\ users = EmptyTable
  /\ items = EmptyTable
  /\ orders = EmptyTable
  /\ clock = 0
  /\ pc = [r \in Requests |-> "idle"]
  /\ local = [r \in Requests |-> NoLocal]
  /\ resp = NoResp
  /\ created = NoCreated

Idle(r) == pc[r] = "idle"

\* Time passes.
Tick ==
  /\ clock < MaxClock
  /\ clock' = clock + 1
  /\ UNCHANGED <<users, items, orders, pc, local, resp>>

(* ------------------------------- users --------------------------------- *)

\* POST /users/ (response_model=None).
create_user(r, user) ==
  /\ Idle(r)
  /\ NextId(users) <= MaxId
  /\ IF EmailTaken(user.email, 0)
     THEN /\ users' = users
          /\ resp' = Response("create_user", 0, AnyDict,
                        ExceptException(Raise(IntegrityError)))
     ELSE /\ users' = Insert(users, user)
          /\ resp' = Response("create_user", 0, AnyDict,
                        ExceptException(Return(With(user, "id", NextId(users)))))
  /\ UNCHANGED <<items, orders, clock, pc, local>>

\* GET /users/{user_id}/ (response_model=Dict[str, Union[...]]).
read_user(r, user_id) ==
  /\ Idle(r)
  /\ LET user == FetchOne(users, user_id)
     IN resp' = Response("read_user", user_id, AnyDict,
                   ExceptExceptionReadUser(
                     IF ~Not(user) THEN Return(user)
                     ELSE Raise(HTTPException(404, "User not found"))))
  /\ UNCHANGED <<users, items, orders, clock, pc, local>>

\* PUT /users/{user_id}/ (response_model=UserCreate).
update_user(r, user_id, user) ==
  /\ Idle(r)
  /\ IF user_id \in DOMAIN users /\ EmailTaken(user.email, user_id)
     THEN /\ users' = users
          /\ resp' = Response("update_user", user_id, UserCreate,
                        ExceptException(Raise(IntegrityError)))
     ELSE /\ users' = Update(users, user_id, user)
          /\ resp' = Response("update_user", user_id, UserCreate,
                        ExceptException(Return(With(user, "id", user_id))))
  /\ UNCHANGED <<items, orders, clock, pc, local>>

\* delete_user as it would be with ON DELETE CASCADE on orders.user_id.
delete_user_cascade(r, user_id) ==
  /\ Idle(r)
  /\ users' = Delete(users, user_id)
  /\ orders' = [j \in {k \in DOMAIN orders : orders[k].user_id # user_id} |-> orders[j]]
  /\ resp' = Response("delete_user", user_id, AnyDict,
                ExceptException(Return([message |-> "User deleted"])))
  /\ UNCHANGED <<items, clock, pc, local>>

\* DELETE /users/{user_id}/ (response_model=dict).
delete_user(r, user_id) ==
  /\ Idle(r)
  /\ users' = Delete(users, user_id)
  /\ resp' = Response("delete_user", user_id, AnyDict,
                ExceptException(Return([message |-> "User deleted"])))
  /\ UNCHANGED <<items, orders, clock, pc, local>>

(* ------------------------------- items --------------------------------- *)

\* POST /items/ (response_model=ItemRead).
create_item(r, item) ==
  /\ Idle(r)
  /\ NextId(items) <= MaxId
  /\ items' = Insert(items, item)
  /\ resp' = Response("create_item", 0, ItemRead,
                ExceptException(Return(With(item, "id", NextId(items)))))
  /\ UNCHANGED <<users, orders, clock, pc, local>>

\* GET /items/{item_id}/ (response_model=ItemRead).
read_item(r, item_id) ==
  /\ Idle(r)
  /\ LET item == FetchOne(items, item_id)
     IN resp' = Response("read_item", item_id, ItemRead,
                   ExceptException(
                     IF ~Not(item) THEN Return(item)
                     ELSE Raise(HTTPException(404, "Item not found"))))
  /\ UNCHANGED <<users, items, orders, clock, pc, local>>

\* PUT /items/{item_id}/ (response_model=ItemRead).
update_item(r, item_id, item) ==
  /\ Idle(r)
  /\ items' = Update(items, item_id, item)
  /\ resp' = Response("update_item", item_id, ItemRead,
                ExceptException(Return(With(item, "id", item_id))))
  /\ UNCHANGED <<users, orders, clock, pc, local>>

\* DELETE /items/{item_id}/ (response_model=dict), up to its first statement:
\* the SELECT and the test of its result.
delete_item_select(r, item_id) ==
  /\ Idle(r)
  /\ LET existing_item == FetchOne(items, item_id)
     IN IF Not(existing_item)
        THEN /\ resp' = Response("delete_item", item_id, AnyDict,
                           ExceptException(Raise(HTTPException(404, "Item not found"))))
             /\ UNCHANGED <<pc, local>>
        ELSE /\ pc' = [pc EXCEPT ![r] = "delete_item_execute"]
             /\ local' = [local EXCEPT ![r] = [op |-> "delete_item", item_id |-> item_id]]
             /\ UNCHANGED resp
  /\ UNCHANGED <<users, items, orders, clock>>

\* DELETE /items/{item_id}/, its second statement: the DELETE, and the return.
delete_item_execute(r) ==
  /\ pc[r] = "delete_item_execute"
  /\ items' = Delete(items, local[r].item_id)
  /\ resp' = Response("delete_item", local[r].item_id, AnyDict,
                ExceptException(Return([message |-> "Item deleted successfully"])))
  /\ pc' = [pc EXCEPT ![r] = "idle"]
  /\ local' = [local EXCEPT ![r] = NoLocal]
  /\ UNCHANGED <<users, orders, clock>>

(* ------------------------------- orders -------------------------------- *)

\* POST /orders/ (response_model=OrderResponse), up to its statement: the
\* INSERT is built with the clock's reading of that moment, and executed.
create_order_insert(r, order) ==
  /\ Idle(r)
  /\ NextId(orders) <= MaxId
  /\ orders' = Insert(orders, With(With(order, "order_date", clock), "status", Pending))
  /\ pc' = [pc EXCEPT ![r] = "create_order_return"]
  /\ local' = [local EXCEPT ![r] =
                 [op |-> "create_order", order |-> order, order_id |-> NextId(orders)]]
  /\ UNCHANGED <<users, items, clock, resp>>

\* The dict create_order returns: the clock is read again for its order_date.
CreateOrderResult(order_id, order, now) ==
  With(With(With(order, "id", order_id), "order_date", now), "status", Pending)

\* POST /orders/, its return.
create_order_return(r) ==
  /\ pc[r] = "create_order_return"
  /\ resp' = Response("create_order", 0, OrderResponse,
                ExceptException(
                  Return(CreateOrderResult(local[r].order_id, local[r].order, clock))))
  /\ pc' = [pc EXCEPT ![r] = "idle"]
  /\ local' = [local EXCEPT ![r] = NoLocal]
  /\ UNCHANGED <<users, items, orders, clock>>

\* GET /orders/{order_id}/ (response_model=OrderRead).
read_order(r, order_id) ==
  /\ Idle(r)
  /\ LET order == FetchOne(orders, order_id)
     IN resp' = Response("read_order", order_id, OrderRead,
                   ExceptException(
                     IF ~Not(order) THEN Return(order)
                     ELSE Raise(HTTPException(404, "Order not found"))))
  /\ UNCHANGED <<users, items, orders, clock, pc, local>>

\* f"UPDATE orders SET status='{status}' WHERE id={order_id}": the text of the
\* statement, the status pasted between the two quotes character by character.
UpdateText(status, order_id) ==
  <<"UPDATE orders SET status=", "'">> \o status \o <<"'", " WHERE id=", ToString(order_id)>>

\* SQLite's scan of a string literal whose opening quote precedes text[i]:
\* two quotes in a row are one quote of the literal, a single quote ends it,
\* and the end of the text before that is an unterminated literal.
RECURSIVE ScanLiteral(_, _, _)
ScanLiteral(text, i, acc) ==
  IF i > Len(text) THEN [ok |-> FALSE]
  ELSE IF text[i] = "'"
       THEN IF i + 1 <= Len(text) /\ text[i + 1] = "'"
            THEN ScanLiteral(text, i + 2, Append(acc, "'"))
            ELSE [ok |-> TRUE, value |-> acc, rest |-> SubSeq(text, i + 1, Len(text))]
       ELSE ScanLiteral(text, i + 1, Append(acc, text[i]))

\* SQLite's parse of the statement text: the value assigned to status and the
\* rows it is assigned in ("*": no WHERE clause is left, every row).  After
\* the literal the text goes on with the WHERE clause of the template, or
\* with "--", a comment to the end of the text; any other continuation that
\* the status inputs produce (an unterminated literal) is a syntax error.
ParseUpdate(text) ==
  LET lit == ScanLiteral(text, 3, <<>>)
  IN IF ~lit.ok THEN [ok |-> FALSE]
     ELSE IF Len(lit.rest) = 2 /\ lit.rest[1] = " WHERE id="
          THEN [ok |-> TRUE, value |-> lit.value, where |-> lit.rest[2]]
          ELSE IF Len(lit.rest) >= 2 /\ lit.rest[1] = "-" /\ lit.rest[2] = "-"
               THEN [ok |-> TRUE, value |-> lit.value, where |-> "*"]
               ELSE [ok |-> FALSE]

\* database.execute(text(...)) of a parsed UPDATE on the orders table.
ExecuteUpdate(table, stmt) ==
  [j \in DOMAIN table |->
     IF stmt.where = "*" \/ stmt.where = ToString(j)
     THEN [table[j] EXCEPT !.status = stmt.value]
     ELSE table[j]]

\* update_order_select as it would be without the test of the SELECT's result.
update_order_select_unchecked(r, order_id, status) ==
  /\ Idle(r)
  /\ pc' = [pc EXCEPT ![r] = "update_order_execute"]
  /\ local' = [local EXCEPT ![r] =
                 [op |-> "update_order", order_id |-> order_id,
                  status |-> status, existing_order |-> FetchOne(orders, order_id)]]
  /\ UNCHANGED <<users, items, orders, clock, resp>>

\* PUT /orders/{order_id}/ (response_model=OrderResponse), up to its first
\* statement: the SELECT and the test of its result.
update_order_select(r, order_id, status) ==
  /\ Idle(r)
  /\ LET existing_order == FetchOne(orders, order_id)
     IN IF Not(existing_order)
        THEN /\ resp' = Response("update_order", order_id, OrderResponse,
                           ExceptException(Raise(HTTPException(404, "Order not found"))))
             /\ UNCHANGED <<pc, local>>
        ELSE /\ pc' = [pc EXCEPT ![r] = "update_order_execute"]
             /\ local' = [local EXCEPT ![r] =
                            [op |-> "update_order", order_id |-> order_id,
                             status |-> status, existing_order |-> existing_order]]
             /\ UNCHANGED resp
  /\ UNCHANGED <<users, items, orders, clock>>

\* PUT /orders/{order_id}/, its second statement: the UPDATE built from the
\* raw status, and the return of the row fetched before with the status asked
\* for.
update_order_execute(r) ==
  /\ pc[r] = "update_order_execute"
  /\ LET stmt == ParseUpdate(UpdateText(local[r].status, local[r].order_id))
     IN IF ~stmt.ok
        THEN /\ orders' = orders
             /\ resp' = Response("update_order", local[r].order_id, OrderResponse,
                           ExceptException(Raise(OperationalError)))
        ELSE /\ orders' = ExecuteUpdate(orders, stmt)
             /\ resp' = Response("update_order", local[r].order_id, OrderResponse,
                           ExceptException(
                             Return(With(local[r].existing_order, "status", local[r].status))))
  /\ pc' = [pc EXCEPT ![r] = "idle"]
  /\ local' = [local EXCEPT ![r] = NoLocal]
  /\ UNCHANGED <<users, items, clock>>

\* DELETE /orders/{order_id}/ (response_model=dict), up to its first
\* statement: the SELECT and the test of its result.
delete_order_select(r, order_id) ==
  /\ Idle(r)
  /\ LET existing_order == FetchOne(orders, order_id)
     IN IF Not(existing_order)
        THEN /\ resp' = Response("delete_order", order_id, AnyDict,
                           ExceptException(Raise(HTTPException(404, "Order not found"))))
             /\ UNCHANGED <<pc, local>>
        ELSE /\ pc' = [pc EXCEPT ![r] = "delete_order_execute"]
             /\ local' = [local EXCEPT ![r] = [op |-> "delete_order", order_id |-> order_id]]
             /\ UNCHANGED resp
  /\ UNCHANGED <<users, items, orders, clock>>

\* DELETE /orders/{order_id}/, its second statement: the DELETE, and the return.
delete_order_execute(r) ==
  /\ pc[r] = "delete_order_execute"
  /\ orders' = Delete(orders, local[r].order_id)
  /\ resp' = Response("delete_order", local[r].order_id, AnyDict,
                ExceptException(Return([message |-> "Order deleted successfully"])))
  /\ pc' = [pc EXCEPT ![r] = "idle"]
  /\ local' = [local EXCEPT ![r] = NoLocal]
  /\ UNCHANGED <<users, items, clock>>

(* ------------------------------ inputs --------------------------------- *)

UserPayloads ==
  [first_name : {"Ann"}, last_name : {"Lee"},
   email : {"a@x.org", "b@x.org"}, password : {"pw"}]

ItemPayloads == [name : {"Widget"}, description : {"A widget"}, price : {5, 10}]

\* Order i of the inputs names user i and item i.
OrderPayloads == {[user_id |-> i, item_id |-> i] : i \in Ids}

\* A plain status.
Shipped == <<"s">>

\* A statement terminator inside the status.
Terminated == <<"s", ";">>

\* A lone quote.
Quote == <<"'">>

\* Two quotes.
TwoQuotes == <<"'", "'">>

\* A quote followed by a comment.
QuoteComment == <<"s", "'", "-", "-">>

StatusInputs == {Shipped, Terminated, Quote, TwoQuotes, QuoteComment}

\* A second plain status.
Delivered == <<"d">>

(* --------------------------- specifications ---------------------------- *)

\* History: a create has answered with this row.
Remember(kind, row) == created' = [kind |-> kind, id |-> row.id, fields |-> row]

\* History: a request names the id of this kind.
Touch(kind, id) ==
  created' = IF created.kind = kind /\ created.id = id THEN NoCreated ELSE created

\* The statuses of the requests of Spec: a plain one, and one with a quote.
SpecStatuses == {Shipped, QuoteComment}

Next ==
  \/ \E user \in UserPayloads :
       /\ create_user("r1", user)
       /\ IF resp'.status_code = 200 THEN Remember("users", resp'.body)
          ELSE UNCHANGED created
  \/ \E id \in Ids : read_user("r1", id) /\ Touch("users", id)
  \/ \E id \in Ids, user \in UserPayloads : update_user("r1", id, user) /\ Touch("users", id)
  \/ \E id \in Ids : delete_user("r1", id) /\ Touch("users", id)
  \/ \E item \in ItemPayloads : create_item("r1", item) /\ Remember("items", resp'.body)
  \/ \E id \in Ids : read_item("r1", id) /\ Touch("items", id)
  \/ \E id \in Ids, item \in ItemPayloads : update_item("r1", id, item) /\ Touch("items", id)
  \/ \E id \in Ids : delete_item_select("r1", id) /\ Touch("items", id)
  \/ delete_item_execute("r1") /\ UNCHANGED created
  \/ \E order \in OrderPayloads : create_order_insert("r1", order) /\ UNCHANGED created
  \/ create_order_return("r1") /\ Remember("orders", resp'.body)
  \/ \E id \in Ids : read_order("r1", id) /\ Touch("orders", id)
  \/ \E id \in Ids, status \in SpecStatuses :
       update_order_select("r1", id, status) /\ Touch("orders", id)
  \/ update_order_execute("r1") /\ UNCHANGED created
  \/ \E id \in Ids : delete_order_select("r1", id) /\ Touch("orders", id)
  \/ delete_order_execute("r1") /\ UNCHANGED created

\* The twelve handlers, one request at a time; the row that came back from
\* the last create is remembered until a request names its id.
Spec == Init /\ [][Next]_vars

NextOrders ==
  \/ \E order \in OrderPayloads : create_order_insert("r1", order) /\ UNCHANGED created
  \/ create_order_return("r1") /\ UNCHANGED created
  \/ \E id \in Ids : read_order("r1", id) /\ UNCHANGED created
  \/ \E id \in Ids, status \in StatusInputs :
       update_order_select("r1", id, status) /\ UNCHANGED created
  \/ update_order_execute("r1") /\ UNCHANGED created
  \/ \E id \in Ids : delete_order_select("r1", id) /\ UNCHANGED created
  \/ delete_order_execute("r1") /\ UNCHANGED created

\* The order handlers, one request at a time, on every status input.
SpecOrders == Init /\ [][NextOrders]_vars

NextClock ==
  \/ Tick /\ UNCHANGED created
  \/ \E order \in OrderPayloads : create_order_insert("r1", order) /\ UNCHANGED created
  \/ create_order_return("r1") /\ UNCHANGED created
  \/ \E id \in Ids : read_order("r1", id) /\ UNCHANGED created
  \/ \E id \in Ids : delete_order_select("r1", id) /\ UNCHANGED created
  \/ delete_order_execute("r1") /\ UNCHANGED created

\* Creating, reading and deleting orders while time passes.
SpecClock == Init /\ [][NextClock]_vars

NextRefs ==
  \/ \E user \in UserPayloads : create_user("r1", user) /\ UNCHANGED created
  \/ \E id \in Ids : delete_user("r1", id) /\ UNCHANGED created
  \/ \E item \in ItemPayloads : create_item("r1", item) /\ UNCHANGED created
  \/ \E id \in Ids : delete_item_select("r1", id) /\ UNCHANGED created
  \/ delete_item_execute("r1") /\ UNCHANGED created
  \/ \E order \in OrderPayloads : create_order_insert("r1", order) /\ UNCHANGED created
  \/ create_order_return("r1") /\ UNCHANGED created
  \/ \E id \in Ids : read_order("r1", id) /\ UNCHANGED created

\* Orders that name users and items, and the deletion of those.
SpecRefs == Init /\ [][NextRefs]_vars

NextConcurrent ==
  \E r \in Requests :
    \/ create_order_insert(r, [user_id |-> 1, item_id |-> 1]) /\ UNCHANGED created
    \/ create_order_return(r) /\ UNCHANGED created
    \/ \E id \in Ids, status \in {Shipped, Delivered} :
         update_order_select(r, id, status) /\ UNCHANGED created
    \/ update_order_execute(r) /\ UNCHANGED created
    \/ \E id \in Ids : delete_order_select(r, id) /\ UNCHANGED created
    \/ delete_order_execute(r) /\ UNCHANGED created

\* Two requests on the orders table at a time, interleaved at their awaits.
SpecConcurrent == Init /\ [][NextConcurrent]_vars

(* ------------------------------- claims -------------------------------- *)

\* C1: for each entity, a read of an id the table holds no row for ends with
\* 404, neither success nor 500.
C1_ReadAbsentIsNotFound ==
  [][\A r \in Requests, id \in Ids :
       /\ (read_user(r, id) /\ id \notin DOMAIN users) => resp'.status_code = 404
       /\ (read_item(r, id) /\ id \notin DOMAIN items) => resp'.status_code = 404
       /\ (read_order(r, id) /\ id \notin DOMAIN orders) => resp'.status_code = 404]_vars

\* C2: when a create has answered with id N and no request has named N since,
\* a read of N succeeds with the submitted fields and id N (and, for an
\* order, the status "pending").
C2_CreateThenReadEchoes ==
  [][\A r \in Requests, id \in Ids :
       /\ (read_user(r, id) /\ created.kind = "users" /\ created.id = id)
            => (resp'.status_code = 200 /\ resp'.body = created.fields)
       /\ (read_item(r, id) /\ created.kind = "items" /\ created.id = id)
            => (resp'.status_code = 200 /\ resp'.body = created.fields)
       /\ (read_order(r, id) /\ created.kind = "orders" /\ created.id = id)
            => (/\ resp'.status_code = 200
                /\ \A k \in {"id", "user_id", "item_id", "status"} :
                     resp'.body[k] = created.fields[k])]_vars

\* C3: delete of an existing item or order answers with the fixed message and
\* removes the row, and the read of the same id that follows ends with 404.
C3_DeleteThenReadIsNotFound ==
  [][\A r \in Requests, id \in Ids :
       /\ delete_item_execute(r)
            => (/\ resp'.status_code = 200
                /\ resp'.body = [message |-> "Item deleted successfully"]
                /\ local[r].item_id \notin DOMAIN items')
       /\ delete_order_execute(r)
            => (/\ resp'.status_code = 200
                /\ resp'.body = [message |-> "Order deleted successfully"]
                /\ local[r].order_id \notin DOMAIN orders')
       /\ (resp.op = "delete_item" /\ resp.status_code = 200 /\ resp.id = id
             /\ read_item(r, id)) => resp'.status_code = 404
       /\ (resp.op = "delete_order" /\ resp.status_code = 200 /\ resp.id = id
             /\ read_order(r, id)) => resp'.status_code = 404]_vars

\* C4: delete_item, update_order and delete_order on an id the table holds no
\* row for end with 404, go on to no UPDATE or DELETE, and leave the store as
\* it is.
C4_AbsentIdIsNotFoundAndNoWrite ==
  [][\A r \in Requests, id \in Ids, status \in StatusInputs :
       /\ (delete_item_select(r, id) /\ id \notin DOMAIN items)
            => (resp'.status_code = 404 /\ pc'[r] = "idle" /\ items' = items)
       /\ (update_order_select(r, id, status) /\ id \notin DOMAIN orders)
            => (resp'.status_code = 404 /\ pc'[r] = "idle" /\ orders' = orders)
       /\ (delete_order_select(r, id) /\ id \notin DOMAIN orders)
            => (resp'.status_code = 404 /\ pc'[r] = "idle" /\ orders' = orders)]_vars

\* C5: update_order of an existing order with a non-empty status s succeeds,
\* returns the stored row with status s, and the read that follows returns
\* status s with the other fields unchanged.
C5_UpdateStatusIsReflected ==
  [][\A r \in Requests, id \in Ids :
       /\ (update_order_execute(r) /\ local[r].order_id = id /\ id \in DOMAIN orders
             /\ local[r].status # <<>>)
            => (/\ resp'.status_code = 200
                /\ resp'.body = With(orders[id], "status", local[r].status)
                /\ orders'[id] = With(orders[id], "status", local[r].status))
       /\ (resp.op = "update_order" /\ resp.status_code = 200 /\ resp.id = id
             /\ read_order(r, id))
            => (resp'.status_code = 200 /\ resp'.body = resp.body)]_vars

\* Whether a str holds a quote or a statement terminator.
HasQuoteOrTerminator(status) ==
  \E i \in 1..Len(status) : status[i] \in {"'", ";"}

\* C6: update_order of an existing order with a status that holds a quote or
\* a statement terminator stores and returns the status literally, changes no
\* other row, and does not end with 500.
C6_StatusIsStoredLiterally ==
  [][\A r \in Requests, id \in Ids :
       (update_order_execute(r) /\ local[r].order_id = id /\ id \in DOMAIN orders
          /\ HasQuoteOrTerminator(local[r].status))
         => (/\ resp'.status_code = 200
             /\ resp'.body.status = local[r].status
             /\ orders'[id].status = local[r].status
             /\ \A j \in (DOMAIN orders) \ {id} : orders'[j] = orders[j])]_vars

\* C7: update_user and delete_user on an id the table holds no row for answer
\* with their success result (the submitted fields plus id; the message
\* "User deleted"), never 404, and leave the users table as it is.
C7_AbsentUserSucceedsUnchanged ==
  [][\A r \in Requests, id \in Ids, user \in UserPayloads :
       /\ (update_user(r, id, user) /\ id \notin DOMAIN users)
            => (/\ resp'.status_code = 200
                /\ resp'.body = With(user, "id", id)
                /\ users' = users)
       /\ (delete_user(r, id) /\ id \notin DOMAIN users)
            => (/\ resp'.status_code = 200
                /\ resp'.body = [message |-> "User deleted"]
                /\ users' = users)]_vars

\* The part of C7 about the store alone: update_user and delete_user on an
\* absent id answer 200 and leave the users table as it is.
AbsentUserLeavesUsersUnchanged ==
  [][\A r \in Requests, id \in Ids, user \in UserPayloads :
       ((update_user(r, id, user) \/ delete_user(r, id)) /\ id \notin DOMAIN users)
         => (resp'.status_code = 200 /\ users' = users)]_vars

\* C8: no step of delete_user or delete_item changes the orders table, and
\* read_order of an order in the table succeeds with the stored row, whether
\* or not the user and the item it names still exist.
C8_DeletesLeaveOrders ==
  [][\A r \in Requests, id \in Ids :
       /\ (delete_user(r, id) \/ delete_item_select(r, id) \/ delete_item_execute(r))
            => orders' = orders
       /\ (read_order(r, id) /\ id \in DOMAIN orders)
            => (resp'.status_code = 200 /\ resp'.body = orders[id])]_vars

\* delete_item has answered with success for an item that an order in the
\* table names.
C8_Witness ==
  /\ resp.op = "delete_item"
  /\ resp.status_code = 200
  /\ \A r \in Requests : pc[r] = "idle"
  /\ resp.id \notin DOMAIN items
  /\ \E o \in DOMAIN orders : orders[o].item_id = resp.id

\* C9: the order_date of create_order's response is the order_date stored
\* in the row it inserted.
C9_ResponseDateIsStoredDate ==
  [][\A r \in Requests :
       create_order_return(r)
         => (/\ resp'.status_code = 200
             /\ local[r].order_id \in DOMAIN orders
                  => resp'.body.order_date = orders[local[r].order_id].order_date)]_vars

\* C10 as written: an update_order that answers with success executed its
\* UPDATE on a table that held the order.
C10_UpdateWroteExistingRow ==
  [][\A r \in Requests :
       (update_order_execute(r) /\ resp'.status_code = 200)
         => local[r].order_id \in DOMAIN orders]_vars

\* C10 as amended: an update_order goes on to its UPDATE only when its SELECT
\* found the order, the UPDATE makes no row, and the success it answers with
\* is the row of that SELECT with the new status, whether or not the order is
\* still in the table.
C10_UpdateCheckedAtSelect ==
  [][\A r \in Requests, id \in Ids, status \in {Shipped, Delivered} :
       /\ (update_order_select(r, id, status) /\ pc'[r] = "update_order_execute")
            => (id \in DOMAIN orders /\ local'[r].existing_order = orders[id])
       /\ update_order_execute(r)
            => (/\ DOMAIN orders' = DOMAIN orders
                /\ resp'.status_code = 200
                     => resp'.body = With(local[r].existing_order, "status", local[r].status))]_vars

\* update_order has answered with success for an order that a concurrent
\* delete_order removed between its SELECT and its UPDATE.
C10_Witness ==
  /\ resp.op = "update_order"
  /\ resp.status_code = 200
  /\ resp.id \notin DOMAIN orders

====
